---- MODULE Spec2Model ----
(***************************************************************************)
(* Product Performance Engine of mon_business                              *)
(* (src/lib/productPerformance.ts).                                        *)
(*                                                                         *)
(* calculateProductPerformance is a synchronous function of three inputs   *)
(* (entries, stockItems, daysToAnalyze).  The state machine below lets a   *)
(* caller assemble the inputs one entry / one stock item at a time and     *)
(* then invoke the function; the whole invocation is one action.           *)
(*                                                                         *)
(* Numbers: JavaScript numbers are modelled as exact rationals n/d.  The   *)
(* only IEEE special values the code can produce on non-negative inputs    *)
(* are the +Infinity / NaN of the unguarded division by daysToAnalyze;     *)
(* they are modelled by the extended numbers below.  Rounding error of     *)
(* binary floating point is not modelled.                                  *)
(***************************************************************************)
EXTENDS Integers, Sequences, FiniteSets, TLC

VARIABLES entries, stockItems, daysToAnalyze, report, probe, localStorage

vars == <<entries, stockItems, daysToAnalyze, report, probe, localStorage>>

\* ------------------------------------------------------------------ bounds

\* Longest ledger the caller assembles.
MaxEntries == 2

\* Longest ledger of the repeated calls.
MaxRepeatEntries == 1

\* Longest ledger the aggregation is applied to on its own.
MaxLedger == 2

\* Longest entries and stock arrays of a BusinessData handed to saveData.
MaxItems == 1

\* Longest ledger of sales and expenses the engine is called on over several
\* windows.
MaxTrades == 3

\* ------------------------------------------------------------ input domains

\* Identifiers of stock items, in the order in which the caller adds them.
IdOrder == <<"p1", "p2">>

Ids == {IdOrder[i] : i \in 1..Len(IdOrder)}

\* An optional field is a sequence of length 0 (absent) or 1 (present).
Absent == <<>>

Some(x) == <<x>>

SaleAmounts == {50000, 100000}

SaleQuantities == {Absent, Some(1), Some(2)}

\* Ledger entries the caller may record.  quantity is meaningful for SALE only;
\* the type "TRANSFER" stands for any type the aggregation does not know.
SaleEntries ==
  [productId : {Some(i) : i \in Ids}, type : {"SALE"},
   amount : SaleAmounts, quantity : SaleQuantities]

CostEntries ==
  [productId : {Some(i) : i \in Ids}, type : {"EXPENSE"},
   amount : {50000}, quantity : {Absent}]
  \cup
  [productId : {Some(i) : i \in Ids}, type : {"STOCK_IN"},
   amount : {100000}, quantity : {Absent}]

OtherEntries ==
  [productId : {Some(i) : i \in Ids}, type : {"TRANSFER"},
   amount : {50000}, quantity : {Absent}]
  \cup
  [productId : {Absent}, type : {"SALE"},
   amount : {50000}, quantity : {Some(1)}]

EntryDomain == SaleEntries \cup CostEntries \cup OtherEntries

\* Sales of one unit and expenses, the entries of a ledger in trade.
TradeEntries ==
  {e \in SaleEntries : e.quantity = Some(1)}
  \cup {e \in CostEntries : e.type = "EXPENSE"}

\* daysToAnalyze of a call: no window, a week, the default month.
WindowDomain == {0, 7, 30}

\* Entries with a negative amount, which the upstream store is meant to
\* refuse.
NegativeEntries ==
  [productId : {Some(i) : i \in Ids}, type : {"SALE"},
   amount : {-50000}, quantity : {Some(1)}]
  \cup
  [productId : {Some(i) : i \in Ids}, type : {"EXPENSE"},
   amount : {-50000}, quantity : {Absent}]

LedgerDomain == EntryDomain \cup NegativeEntries

\* item.quantity (units on hand) and item.totalSold of a stock item.
StockQuantities == {0, 1}

StockTotalSold == {0, 2}

\* daysToAnalyze values a caller passes (30 is the default of the parameter).
DaysDomain == {0, 30}

\* ---------------------------------------------------------------- rationals

RECURSIVE Gcd(_, _)
Gcd(a, b) == IF b = 0 THEN a ELSE Gcd(b, a % b)

Abs(i) == IF i < 0 THEN -i ELSE i

\* The rational n/d in lowest terms, d > 0.
Rat(n, d) ==
  LET s == IF d < 0 THEN -1 ELSE 1
      g == Gcd(Abs(n), Abs(d))
  IN  [n |-> (s * n) \div g, d |-> (s * d) \div g]

R(i) == [n |-> i, d |-> 1]

RAdd(a, b) == Rat(a.n * b.d + b.n * a.d, a.d * b.d)

RSub(a, b) == Rat(a.n * b.d - b.n * a.d, a.d * b.d)

RMul(a, b) == Rat(a.n * b.n, a.d * b.d)

\* a / b for b # 0.
RDiv(a, b) == Rat(a.n * b.d, a.d * b.n)

RLt(a, b) == a.n * b.d < b.n * a.d

RLe(a, b) == a.n * b.d <= b.n * a.d

RGt(a, b) == RLt(b, a)

RGe(a, b) == RLe(b, a)

\* Sign of a - b: the sign of a sort comparator's result.
RCmp(a, b) == IF RLt(a, b) THEN -1 ELSE IF RLt(b, a) THEN 1 ELSE 0

\* Math.min
RMin(a, b) == IF RLt(b, a) THEN b ELSE a

\* Math.round: the integer nearest to a, halves rounded towards +Infinity.
RRound(a) == (2 * a.n + a.d) \div (2 * a.d)

\* ------------------------------------------------- extended (IEEE) numbers

Fin(r) == [kind |-> "fin", v |-> r]

Infinity == [kind |-> "inf", v |-> R(0)]

NegInfinity == [kind |-> "-inf", v |-> R(0)]

NaN == [kind |-> "nan", v |-> R(0)]

\* JavaScript a / b on finite a, b: division by zero yields +-Infinity or NaN.
JsDiv(a, b) ==
  IF b.n # 0 THEN Fin(RDiv(a, b))
  ELSE IF a.n > 0 THEN Infinity
  ELSE IF a.n < 0 THEN NegInfinity
  ELSE NaN

\* JavaScript x > 0 on an extended number (NaN compares false).
JsPositive(x) ==
  \/ x.kind = "inf"
  \/ x.kind = "fin" /\ x.v.n > 0

\* JavaScript a / x for finite a and an extended x with x > 0.
JsDivByExt(a, x) ==
  IF x.kind = "fin" THEN JsDiv(a, x.v)
  ELSE IF x.kind = "nan" THEN NaN
  ELSE Fin(R(0))

\* ------------------------------------------------------------- aggregation

\* The value `dataByProduct.get(id) || {...}` falls back to.
ZeroData == [revenue |-> 0, quantity |-> 0, totalCost |-> 0]

\* A Map that outlives the call: it still holds what the call before put
\* into it.
leakedMap ==
  IF report = Absent THEN [k \in {} |-> ZeroData]
  ELSE LET ps == report[1].products
           at(id) == ps[CHOOSE k \in 1..Len(ps) : ps[k].productId = id]
       IN  [id \in {ps[k].productId : k \in 1..Len(ps)} |->
              [revenue |-> at(id).totalRevenue,
               quantity |-> at(id).unitsSold,
               totalCost |-> at(id).totalRevenue - at(id).realizedProfit]]

\* new Map(): no key.
EmptyMap == [k \in {} |-> ZeroData]

\* dataByProduct.get(k) || { revenue: 0, quantity: 0, totalCost: 0 }
MapGetOrZero(m, k) == IF k \in DOMAIN m THEN m[k] ELSE ZeroData

\* dataByProduct.set(k, v)
MapSet(m, k, v) == [x \in (DOMAIN m) \cup {k} |-> IF x = k THEN v ELSE m[x]]

\* A default of one unit for a sale without a quantity.
quantityOrOne(entry) ==
  IF entry.quantity = Absent THEN 1 ELSE entry.quantity[1]

\* entry.quantity || 0
QuantityOrZero(entry) ==
  IF entry.quantity = Absent THEN 0 ELSE entry.quantity[1]

\* The body of entries.forEach for one entry.
AggregateEntry(m, entry) ==
  IF entry.productId # Absent
  THEN LET id == entry.productId[1]
           current == MapGetOrZero(m, id)
       IN  IF entry.type = "SALE"
           THEN MapSet(m, id,
                  [revenue |-> current.revenue + entry.amount,
                   quantity |-> current.quantity + QuantityOrZero(entry),
                   totalCost |-> current.totalCost])
           ELSE IF entry.type = "EXPENSE" \/ entry.type = "STOCK_IN"
           THEN MapSet(m, id,
                  [revenue |-> current.revenue,
                   quantity |-> current.quantity,
                   totalCost |-> current.totalCost + entry.amount])
           ELSE m
  ELSE m

RECURSIVE AggregateFrom(_, _, _)
AggregateFrom(m, es, i) ==
  IF i > Len(es) THEN m
  ELSE AggregateFrom(AggregateEntry(m, es[i]), es, i + 1)

\* The Map built by entries.forEach, in ledger order.
dataByProduct(es) == AggregateFrom(EmptyMap, es, 1)

\* ------------------------------------------------------ lifecycle classifier

\* categorizePerformance with the in-progress guard written `<= 100`.
categorizeInclusiveBound(realizedProfit, projectedProfit, realizationRate, currentStock) ==
  IF realizationRate.n = 0 THEN "NOT_STARTED"
  ELSE IF currentStock = 0
  THEN IF realizedProfit.n > 0 THEN "COMPLETED_PROFITABLE"
       ELSE IF realizedProfit.n = 0 THEN "COMPLETED_BREAKEVEN"
       ELSE "COMPLETED_LOSS"
  ELSE IF RLe(realizationRate, R(100))
  THEN IF realizedProfit.n > 0 /\ projectedProfit.n > 0
       THEN "IN_PROGRESS_STRONG"
       ELSE IF realizedProfit.n < 0 /\ projectedProfit.n > 0
       THEN "IN_PROGRESS_RECOVERING"
       ELSE IF realizedProfit.n < 0 /\ projectedProfit.n < 0
       THEN "IN_PROGRESS_TROUBLED"
       ELSE IF realizedProfit.n > 0 /\ projectedProfit.n < 0
       THEN "IN_PROGRESS_DECLINING"
       ELSE "IN_PROGRESS_NEUTRAL"
  ELSE "UNKNOWN"

\* categorizePerformance with the sold-out guard placed after the in-progress
\* guard.
categorizeStockGuardLast(realizedProfit, projectedProfit, realizationRate, currentStock) ==
  IF realizationRate.n = 0 THEN "NOT_STARTED"
  ELSE IF RLt(realizationRate, R(100))
  THEN IF realizedProfit.n > 0 /\ projectedProfit.n > 0
       THEN "IN_PROGRESS_STRONG"
       ELSE IF realizedProfit.n < 0 /\ projectedProfit.n > 0
       THEN "IN_PROGRESS_RECOVERING"
       ELSE IF realizedProfit.n < 0 /\ projectedProfit.n < 0
       THEN "IN_PROGRESS_TROUBLED"
       ELSE IF realizedProfit.n > 0 /\ projectedProfit.n < 0
       THEN "IN_PROGRESS_DECLINING"
       ELSE "IN_PROGRESS_NEUTRAL"
  ELSE IF currentStock = 0
  THEN IF realizedProfit.n > 0 THEN "COMPLETED_PROFITABLE"
       ELSE IF realizedProfit.n = 0 THEN "COMPLETED_BREAKEVEN"
       ELSE "COMPLETED_LOSS"
  ELSE "UNKNOWN"

\* realizedProfit, projectedProfit, realizationRate: rationals; currentStock:
\* an integer.
categorizePerformance(realizedProfit, projectedProfit, realizationRate, currentStock) ==
  IF realizationRate.n = 0 THEN "NOT_STARTED"
  ELSE IF currentStock = 0
  THEN IF realizedProfit.n > 0 THEN "COMPLETED_PROFITABLE"
       ELSE IF realizedProfit.n = 0 THEN "COMPLETED_BREAKEVEN"
       ELSE "COMPLETED_LOSS"
  ELSE IF RLt(realizationRate, R(100))
  THEN IF realizedProfit.n > 0 /\ projectedProfit.n > 0
       THEN "IN_PROGRESS_STRONG"
       ELSE IF realizedProfit.n < 0 /\ projectedProfit.n > 0
       THEN "IN_PROGRESS_RECOVERING"
       ELSE IF realizedProfit.n < 0 /\ projectedProfit.n < 0
       THEN "IN_PROGRESS_TROUBLED"
       ELSE IF realizedProfit.n > 0 /\ projectedProfit.n < 0
       THEN "IN_PROGRESS_DECLINING"
       ELSE "IN_PROGRESS_NEUTRAL"
  ELSE "UNKNOWN"

\* ------------------------------------------------------------------- score

\* The weights of calculateScore, as exact fractions.
weights ==
  [revenue |-> Rat(20, 100), profit |-> Rat(30, 100),
   efficiency |-> Rat(20, 100), turnover |-> Rat(15, 100),
   margin |-> Rat(15, 100), realization |-> Rat(10, 100)]

\* The six normalized sub-scores, each capped from above only.
subScores(revenue, profit, efficiency, turnover, margin, realizationRate) ==
  [revenue |-> RMin(RMul(RDiv(revenue, R(100000)), R(100)), R(100)),
   profit |-> RMin(RMul(RDiv(profit, R(50000)), R(100)), R(100)),
   efficiency |-> RMin(efficiency, R(100)),
   turnover |-> RMin(RMul(turnover, R(50)), R(100)),
   margin |-> RMin(margin, R(100)),
   realization |-> RMin(realizationRate, R(100))]

\* The weighted sum calculateScore rounds.
weightedSum(s, w) ==
  RAdd(RAdd(RAdd(RAdd(RAdd(
    RMul(s.revenue, w.revenue),
    RMul(s.profit, w.profit)),
    RMul(s.efficiency, w.efficiency)),
    RMul(s.turnover, w.turnover)),
    RMul(s.margin, w.margin)),
    RMul(s.realization, w.realization))

calculateScore(revenue, profit, efficiency, turnover, margin, realizationRate) ==
  RRound(weightedSum(
    subScores(revenue, profit, efficiency, turnover, margin, realizationRate),
    weights))


\* ------------------------------------------------------- metric calculator

\* initialStock without the units still on hand.
initialStockSoldOnly(item) == item.totalSold

\* const initialStock = item.totalSold + item.quantity
initialStockOf(item) == item.totalSold + item.quantity

\* Days of stock left that forget the window: stock over units sold.
daysOfStockLeftWithoutWindow(sold, stock, days) ==
  IF sold > 0 THEN JsDiv(R(stock), R(sold)) ELSE Infinity

\* dailySalesRate and daysOfStockLeft: sold is data.quantity, stock is
\* item.quantity.  The division by daysToAnalyze is unguarded.
daysOfStockLeftOf(sold, stock, days) ==
  LET dailySalesRate == JsDiv(R(sold), R(days))
  IN  IF JsPositive(dailySalesRate)
      THEN JsDivByExt(R(stock), dailySalesRate)
      ELSE Infinity

\* initialStock > 0 ? (data.quantity / initialStock) * 100 : 0
stockEfficiencyOf(sold, initialStock) ==
  IF initialStock > 0 THEN RMul(RDiv(R(sold), R(initialStock)), R(100)) ELSE R(0)

\* The share of the inventory sold as a fraction instead of a percentage.
realizationRateAsFraction(sold, initialStock) ==
  IF initialStock > 0 THEN RDiv(R(sold), R(initialStock)) ELSE R(0)

\* initialStock > 0 ? (data.quantity / initialStock) * 100 : 0
realizationRateOf(sold, initialStock) ==
  IF initialStock > 0 THEN RMul(RDiv(R(sold), R(initialStock)), R(100)) ELSE R(0)

\* The value of the remaining stock alone.
projectedRevenueOfStockOnly(revenue, quantity, avgPrice) ==
  RMul(R(quantity), avgPrice)

\* data.revenue + item.quantity * avgPrice
projectedRevenueOf(revenue, quantity, avgPrice) ==
  RAdd(R(revenue), RMul(R(quantity), avgPrice))

\* The record stockItems.map builds for one stock item: data is the item's
\* aggregate (zeros when the Map has no key), days is daysToAnalyze.
productOf(item, data, days) ==
  LET initialStock == initialStockOf(item)
      actualCost == data.totalCost
      actualProfit == data.revenue - actualCost
      avgPrice == IF data.quantity > 0
                  THEN RDiv(R(data.revenue), R(data.quantity)) ELSE R(0)
      avgStock == RDiv(R(initialStock + item.quantity), R(2))
      stockTurnover == IF RGt(avgStock, R(0))
                       THEN RDiv(R(data.quantity), avgStock) ELSE R(0)
      daysOfStockLeft == daysOfStockLeftOf(data.quantity, item.quantity, days)
      stockEfficiency == stockEfficiencyOf(data.quantity, initialStock)
      profitMargin == IF data.revenue > 0
                      THEN RMul(RDiv(R(actualProfit), R(data.revenue)), R(100))
                      ELSE R(0)
      projectedRevenue == projectedRevenueOf(data.revenue, item.quantity, avgPrice)
      projectedProfit == RSub(projectedRevenue, R(actualCost))
      realizationRate == realizationRateOf(data.quantity, initialStock)
      unrealizedValue == RMul(R(item.quantity), avgPrice)
      performanceScore ==
        calculateScore(R(data.revenue), R(actualProfit), stockEfficiency,
                       stockTurnover, profitMargin, realizationRate)
      projectedMargin == IF RGt(projectedRevenue, R(0))
                         THEN RMul(RDiv(projectedProfit, projectedRevenue), R(100))
                         ELSE R(0)
      performanceCategory ==
        categorizePerformance(R(actualProfit), projectedProfit,
                              realizationRate, item.quantity)
  IN  [productId |-> item.id,
       productName |-> item.name,
       totalRevenue |-> data.revenue,
       unitsSold |-> data.quantity,
       realizedProfit |-> actualProfit,
       profitMargin |-> profitMargin,
       projectedRevenue |-> projectedRevenue,
       projectedProfit |-> projectedProfit,
       projectedMargin |-> projectedMargin,
       currentStock |-> item.quantity,
       initialStock |-> initialStock,
       realizationRate |-> realizationRate,
       unrealizedValue |-> unrealizedValue,
       stockEfficiency |-> stockEfficiency,
       daysOfStockLeft |-> daysOfStockLeft,
       performanceScore |-> performanceScore,
       performanceCategory |-> performanceCategory,
       rankByRevenue |-> 0,
       rankByProfit |-> 0,
       rankByEfficiency |-> 0,
       stockTurnover |-> stockTurnover,
       estimatedProfit |-> actualProfit,
       revenuePerUnit |-> avgPrice]

\* stockItems.map(...)
mapProducts(es, items, days) ==
  LET m == dataByProduct(es)
  IN  [i \in 1..Len(items) |-> productOf(items[i], MapGetOrZero(m, items[i].id), days)]

\* The filter on revenue instead of units.
activeByRevenue(products) == SelectSeq(products, LAMBDA p : p.totalRevenue > 0)

\* products.filter((p) => p.unitsSold > 0)
activeProducts(products) == SelectSeq(products, LAMBDA p : p.unitsSold > 0)


\* ------------------------------------------------------------------ ranker

\* A comparator that sorts ascending, (a, b) => a.key - b.key.
comparatorAscending(ka, kb) == RCmp(ka, kb)

\* The comparators of addRankings, (a, b) => b.key - a.key, by their sign:
\* positive when a has to come after b.
comparator(ka, kb) == RCmp(kb, ka)

\* An insertion that puts index i before the indices it ties with.
insertUnstable(sorted, i, keys) ==
  LET after == {k \in 1..Len(sorted) : comparator(keys[sorted[k]], keys[i]) >= 0}
      pos == IF after = {} THEN Len(sorted) + 1
             ELSE CHOOSE k \in after : \A l \in after : k <= l
  IN  SubSeq(sorted, 1, pos - 1) \o <<i>> \o SubSeq(sorted, pos, Len(sorted))

\* One step of a stable sort: index i goes before the first sorted index that
\* the comparator orders after it, and behind all others.
insertStable(sorted, i, keys) ==
  LET after == {k \in 1..Len(sorted) : comparator(keys[sorted[k]], keys[i]) > 0}
      pos == IF after = {} THEN Len(sorted) + 1
             ELSE CHOOSE k \in after : \A l \in after : k <= l
  IN  SubSeq(sorted, 1, pos - 1) \o <<i>> \o SubSeq(sorted, pos, Len(sorted))

RECURSIVE sortFrom(_, _, _)
sortFrom(sorted, i, keys) ==
  IF i > Len(keys) THEN sorted
  ELSE sortFrom(insertStable(sorted, i, keys), i + 1, keys)

\* [...products].sort(comparator): the indices of the products in sorted
\* order (Array.prototype.sort is stable).
sortedIndices(keys) == sortFrom(<<>>, 1, keys)

\* The rank without the `+ 1`.
rankOfZeroBased(sorted, idx) ==
  (CHOOSE k \in 1..Len(sorted) : sorted[k] = idx) - 1

\* sorted.forEach((p, i) => (p.rank = i + 1)): the rank product idx gets;
\* i is the 0-based position of idx in sorted.
rankOf(sorted, idx) ==
  LET i == (CHOOSE k \in 1..Len(sorted) : sorted[k] = idx) - 1
  IN  i + 1

addRankings(products) ==
  LET byRevenue ==
        sortedIndices([i \in 1..Len(products) |-> R(products[i].totalRevenue)])
      byProfit ==
        sortedIndices([i \in 1..Len(products) |-> R(products[i].estimatedProfit)])
      byEfficiency ==
        sortedIndices([i \in 1..Len(products) |-> products[i].stockEfficiency])
  IN  [i \in 1..Len(products) |->
        [products[i] EXCEPT !.rankByRevenue = rankOf(byRevenue, i),
                            !.rankByProfit = rankOf(byProfit, i),
                            !.rankByEfficiency = rankOf(byEfficiency, i)]]

\* -------------------------------------------------------------- summarizer

\* A sum that leaves the first element out.
reduceSumSkippingFirst(keys) ==
  IF Len(keys) = 0 THEN 0
  ELSE LET rest == [i \in 1..(Len(keys) - 1) |-> keys[i + 1]]
           total[n \in 0..Len(rest)] == IF n = 0 THEN 0 ELSE total[n - 1] + rest[n]
       IN  total[Len(rest)]

RECURSIVE sumFrom(_, _, _)
sumFrom(keys, i, sum) ==
  IF i > Len(keys) THEN sum ELSE sumFrom(keys, i + 1, sum + keys[i])

\* keys.reduce((sum, k) => sum + k, 0)
reduceSum(keys) == sumFrom(keys, 1, 0)

\* A reduction that lets a later product win a tie (`>=` for `>`).
reduceBestLastWins(keys) ==
  IF Len(keys) > 0
  THEN LET best[n \in 1..Len(keys)] ==
             IF n = 1 THEN 1
             ELSE IF keys[n] >= keys[best[n - 1]] THEN n ELSE best[n - 1]
       IN  Some(best[Len(keys)])
  ELSE Absent

\* A reduction that never moves off the first product.
reduceBestFirstOnly(keys) == IF Len(keys) > 0 THEN Some(1) ELSE Absent

RECURSIVE bestFrom(_, _, _)
bestFrom(keys, i, best) ==
  IF i > Len(keys) THEN best
  ELSE bestFrom(keys, i + 1, IF keys[i] > keys[best] THEN i ELSE best)

\* products.length > 0 ? products.reduce((best, p) => p.key > best.key ? p
\* : best) : null.  The result points at a product of the list: its index.
reduceBest(keys) == IF Len(keys) > 0 THEN Some(bestFrom(keys, 2, 1)) ELSE Absent

calculateSummary(products) ==
  LET totalRevenue ==
        reduceSum([i \in 1..Len(products) |-> products[i].totalRevenue])
      totalProfit ==
        reduceSum([i \in 1..Len(products) |-> products[i].estimatedProfit])
      avgMargin == IF totalRevenue > 0
                   THEN RMul(RDiv(R(totalProfit), R(totalRevenue)), R(100))
                   ELSE R(0)
  IN  [totalRevenue |-> totalRevenue,
       totalProfit |-> totalProfit,
       averageMargin |-> avgMargin,
       bestByRevenue |->
         reduceBest([i \in 1..Len(products) |-> products[i].totalRevenue]),
       bestByProfit |->
         reduceBest([i \in 1..Len(products) |-> products[i].estimatedProfit]),
       bestByScore |->
         reduceBest([i \in 1..Len(products) |-> products[i].performanceScore]),
       totalProductsAnalyzed |-> Len(products)]

\* ------------------------------------------------------------- the engine

\* The value calculateProductPerformance({entries, stockItems, daysToAnalyze})
\* returns.
calculateProductPerformance(es, items, days) ==
  LET withRankings == addRankings(activeProducts(mapProducts(es, items, days)))
  IN  [products |-> withRankings, summary |-> calculateSummary(withRankings)]



\* ------------------------------------------------------------ state machine

\* entries, stockItems: the inputs the caller has assembled.  daysToAnalyze:
\* the window of the latest call (30, the parameter's default, before any).
\* report: Absent, or Some(the value the latest call returned).
\* probe: the arguments and result of a direct application of one of the
\* engine's functions (Absent in the engine's own state machine).

Init ==
  /\ entries = <<>>
  /\ stockItems = <<>>
  /\ daysToAnalyze = 30
  /\ report = Absent
  /\ probe = Absent
  /\ localStorage = Absent

\* The caller records one more ledger entry.
AddEntry(e) ==
  /\ report = Absent
  /\ Len(entries) < MaxEntries
  /\ entries' = Append(entries, e)
  /\ UNCHANGED <<stockItems, daysToAnalyze, report, probe, localStorage>>

\* The caller adds the next stock item.
AddStockItem(q, ts) ==
  /\ report = Absent
  /\ Len(stockItems) < Len(IdOrder)
  /\ LET id == IdOrder[Len(stockItems) + 1]
     IN  stockItems' = Append(stockItems,
           [id |-> id, name |-> id, quantity |-> q, totalSold |-> ts])
  /\ UNCHANGED <<entries, daysToAnalyze, report, probe, localStorage>>

\* One call of calculateProductPerformance with window d.
Calculate(d) ==
  /\ report = Absent
  /\ daysToAnalyze' = d
  /\ report' = Some(calculateProductPerformance(entries, stockItems, d))
  /\ UNCHANGED <<entries, stockItems, probe, localStorage>>

\* The caller drops the returned report; the inputs stay as they are.
Discard ==
  /\ report # Absent
  /\ report' = Absent
  /\ daysToAnalyze' = 30
  /\ UNCHANGED <<entries, stockItems, probe, localStorage>>

Next ==
  \/ \E e \in EntryDomain : AddEntry(e)
  \/ \E q \in StockQuantities, ts \in StockTotalSold : AddStockItem(q, ts)
  \/ \E d \in DaysDomain : Calculate(d)
  \/ Discard

Spec == Init /\ [][Next]_vars

\* ------------------------------------------------- the engine called again

\* The caller records one more ledger entry (the ledger of repeated calls).
AddRepeatEntry(e) ==
  /\ report = Absent
  /\ Len(entries) < MaxRepeatEntries
  /\ entries' = Append(entries, e)
  /\ UNCHANGED <<stockItems, daysToAnalyze, report, probe, localStorage>>

\* One more call of calculateProductPerformance on the same entries and stock
\* items with window d, while the report of the call before is still held.
\* probe keeps the window and the report of the first call on these inputs,
\* and whether a call with another window has been made since.
CalculateAgain(d) ==
  /\ report # Absent
  /\ probe' = IF probe = Absent
              THEN Some([daysToAnalyze |-> daysToAnalyze, report |-> report[1],
                         otherWindowSeen |-> FALSE])
              ELSE Some([probe[1] EXCEPT !.otherWindowSeen =
                           @ \/ daysToAnalyze # probe[1].daysToAnalyze])
  /\ daysToAnalyze' = d
  /\ report' = Some(calculateProductPerformance(entries, stockItems, d))
  /\ UNCHANGED <<entries, stockItems, localStorage>>

\* The caller drops every report; the inputs stay as they are.
DiscardAll ==
  /\ report # Absent
  /\ report' = Absent
  /\ probe' = Absent
  /\ daysToAnalyze' = 30
  /\ UNCHANGED <<entries, stockItems, localStorage>>

NextRepeat ==
  \/ \E e \in EntryDomain : AddRepeatEntry(e)
  \/ \E q \in StockQuantities, ts \in StockTotalSold : AddStockItem(q, ts)
  \/ \E d \in DaysDomain : Calculate(d)
  \/ \E d \in DaysDomain : CalculateAgain(d)
  \/ DiscardAll

SpecRepeat == Init /\ [][NextRepeat]_vars

\* ---------------------------------- the engine called over several windows

\* The caller records one more sale or expense.
AddTradeEntry(e) ==
  /\ report = Absent
  /\ Len(entries) < MaxTrades
  /\ entries' = Append(entries, e)
  /\ UNCHANGED <<stockItems, daysToAnalyze, report, probe, localStorage>>

NextPortfolio ==
  \/ \E e \in TradeEntries : AddTradeEntry(e)
  \/ \E q \in StockQuantities, ts \in StockTotalSold : AddStockItem(q, ts)
  \/ \E d \in WindowDomain : Calculate(d)
  \/ Discard

SpecPortfolio == Init /\ [][NextPortfolio]_vars

\* ------------------------------------- the aggregation applied on its own

\* One more entry of a ledger that may hold malformed entries.
RecordEntry(e) ==
  /\ probe = Absent
  /\ Len(entries) < MaxLedger
  /\ entries' = Append(entries, e)
  /\ UNCHANGED <<stockItems, daysToAnalyze, report, probe, localStorage>>

\* The entries.forEach of calculateProductPerformance on the ledger.
Aggregate ==
  /\ probe = Absent
  /\ probe' = Some([dataByProduct |-> dataByProduct(entries)])
  /\ UNCHANGED <<entries, stockItems, daysToAnalyze, report, localStorage>>

NextAggregate ==
  \/ \E e \in LedgerDomain : RecordEntry(e)
  \/ Aggregate

SpecAggregate == Init /\ [][NextAggregate]_vars

\* ------------------------------------- the classifier applied on its own

ProfitDomain == {R(-50000), R(0), R(50000)}

RateDomain == {R(0), R(50), Rat(200, 3), R(100), R(150)}

StockDomain == {0, 1, 2}

InitClassify ==
  /\ entries = <<>>
  /\ stockItems = <<>>
  /\ daysToAnalyze = 30
  /\ report = Absent
  /\ probe \in {Some([realizedProfit |-> a, projectedProfit |-> b,
                      realizationRate |-> r, currentStock |-> c,
                      category |-> Absent]) :
                a \in ProfitDomain, b \in ProfitDomain,
                r \in RateDomain, c \in StockDomain}
  /\ localStorage = Absent

\* One application of categorizePerformance to the probe's arguments.
Classify ==
  /\ probe # Absent
  /\ probe[1].category = Absent
  /\ probe' = Some([probe[1] EXCEPT !.category =
                 Some(categorizePerformance(probe[1].realizedProfit,
                                            probe[1].projectedProfit,
                                            probe[1].realizationRate,
                                            probe[1].currentStock))])
  /\ UNCHANGED <<entries, stockItems, daysToAnalyze, report, localStorage>>

NextClassify == Classify

SpecClassify == InitClassify /\ [][NextClassify]_vars

\* ------------------------------------------------ the display of a category

\* The object literal of getPerformanceCategoryDisplay. An icon is written as
\* the code points of its string.
categories ==
  [NOT_STARTED |->
     [label |-> "Pas encore vendu", color |-> "bg-gray-100 text-gray-700",
      icon |-> "U+23F8 U+FE0F"],
   COMPLETED_PROFITABLE |->
     [label |-> "Terminé (Profit)", color |-> "bg-green-100 text-green-700",
      icon |-> "U+2705"],
   COMPLETED_BREAKEVEN |->
     [label |-> "Terminé (Équilibre)", color |-> "bg-blue-100 text-blue-700",
      icon |-> "U+2796"],
   COMPLETED_LOSS |->
     [label |-> "Terminé (Perte)", color |-> "bg-red-100 text-red-700",
      icon |-> "U+274C"],
   IN_PROGRESS_STRONG |->
     [label |-> "En cours (Fort)", color |-> "bg-green-100 text-green-700",
      icon |-> "U+1F4C8"],
   IN_PROGRESS_RECOVERING |->
     [label |-> "En cours (Récupération)",
      color |-> "bg-yellow-100 text-yellow-700", icon |-> "U+1F504"],
   IN_PROGRESS_TROUBLED |->
     [label |-> "En cours (Difficile)", color |-> "bg-red-100 text-red-700",
      icon |-> "U+26A0 U+FE0F"],
   IN_PROGRESS_DECLINING |->
     [label |-> "En cours (Déclin)", color |-> "bg-orange-100 text-orange-700",
      icon |-> "U+1F4C9"],
   IN_PROGRESS_NEUTRAL |->
     [label |-> "En cours (Neutre)", color |-> "bg-gray-100 text-gray-700",
      icon |-> "U+2796"],
   UNKNOWN |->
     [label |-> "Inconnu", color |-> "bg-gray-100 text-gray-700",
      icon |-> "U+2753"]]

\* The properties the object literal inherits from Object.prototype: a read
\* of categories[key] for one of them finds a function (or, for __proto__,
\* the prototype object), which is truthy.
InheritedKeys ==
  {"constructor", "toString", "toLocaleString", "valueOf", "hasOwnProperty",
   "isPrototypeOf", "propertyIsEnumerable", "__proto__"}

\* categories[category] || categories.UNKNOWN
getPerformanceCategoryDisplay(category) ==
  IF category \in DOMAIN categories THEN categories[category]
  ELSE IF category \in InheritedKeys THEN [inherited |-> category]
  ELSE categories.UNKNOWN

\* Strings handed to getPerformanceCategoryDisplay besides the categories.
OtherStrings == {"", "OTHER", "unknown", "constructor", "toString", "__proto__"}

\* The display of the category the classifier has just produced, as the
\* performance table asks for it.
DisplayCategory ==
  /\ probe # Absent
  /\ "display" \notin DOMAIN probe[1]
  /\ probe[1].category # Absent
  /\ probe' = Some([category |-> probe[1].category,
                    display |->
                      getPerformanceCategoryDisplay(probe[1].category[1])])
  /\ UNCHANGED <<entries, stockItems, daysToAnalyze, report, localStorage>>

\* The display of a string that did not come from the classifier.
DisplayString(s) ==
  /\ probe # Absent
  /\ "display" \notin DOMAIN probe[1]
  /\ probe' = Some([category |-> Some(s),
                    display |-> getPerformanceCategoryDisplay(s)])
  /\ UNCHANGED <<entries, stockItems, daysToAnalyze, report, localStorage>>

NextDisplay ==
  \/ Classify
  \/ DisplayCategory
  \/ \E s \in DOMAIN categories \cup OtherStrings : DisplayString(s)

SpecDisplay == InitClassify /\ [][NextDisplay]_vars

\* ------------------------------------------------------ browser storage

\* JavaScript values: a record of the kind of the value and, by kind, its
\* string, its (extended) number, its array items or its own properties (a
\* function from property names to values); the other fields are blank.
NoProps == [k \in {} |-> 0]

JsValue(t, str, num, items, props) ==
  [t |-> t, str |-> str, num |-> num, items |-> items, props |-> props]

Undefined == JsValue("undefined", "", Fin(R(0)), <<>>, NoProps)

Null == JsValue("null", "", Fin(R(0)), <<>>, NoProps)

JsString(s) == JsValue("string", s, Fin(R(0)), <<>>, NoProps)

JsNumber(x) == JsValue("number", "", x, <<>>, NoProps)

JsArray(items) == JsValue("array", "", Fin(R(0)), items, NoProps)

JsObject(props) == JsValue("object", "", Fin(R(0)), <<>>, props)

\* o[k] for a property name k: undefined where the object has no such
\* property (an array, a string or null has none of the names used here).
Prop(o, k) == IF o.t = "object" /\ k \in DOMAIN o.props THEN o.props[k] ELSE Undefined

\* typeof x === "object"
TypeofObject(x) == x.t \in {"object", "array", "null"}

\* !x is false
Truthy(x) ==
  CASE x.t \in {"undefined", "null"} -> FALSE
    [] x.t = "string" -> x.str # ""
    [] x.t = "number" -> x.num.kind \in {"inf", "-inf"}
                           \/ (x.num.kind = "fin" /\ x.num.v # R(0))
    [] OTHER -> TRUE

\* x >= 0 for a number x
JsNonNegative(x) ==
  x.num.kind = "inf" \/ (x.num.kind = "fin" /\ RGe(x.num.v, R(0)))

\* The type guards isValidDailyEntry and isValidStockItem of @/types: an
\* item of an array stands either for a value the guard accepts or for one
\* it refuses.
AcceptedItem == JsObject([id |-> JsString("accepted")])

RefusedItem == JsObject([id |-> Null])

typeIsValidDailyEntry(x) == x = AcceptedItem

typeIsValidStockItem(x) == x = AcceptedItem

\* A check of settings that looks at the name only.
isValidBusinessSettingsNameOnly(settings) ==
  /\ TypeofObject(settings) /\ settings # Null
  /\ Prop(settings, "name").t = "string"

isValidBusinessSettings(settings) ==
  /\ TypeofObject(settings) /\ settings # Null
  /\ Prop(settings, "name").t = "string"
  /\ \/ Prop(settings, "dailyTarget") = Undefined
     \/ /\ Prop(settings, "dailyTarget").t = "number"
        /\ JsNonNegative(Prop(settings, "dailyTarget"))

\* Array.isArray(x)
IsArray(x) == x.t = "array"

isValidBusinessData(data) ==
  /\ TypeofObject(data) /\ data # Null
  /\ Truthy(Prop(data, "settings"))
  /\ IsArray(Prop(data, "entries"))
  /\ IsArray(Prop(data, "stock"))
  /\ isValidBusinessSettings(Prop(data, "settings"))
  /\ \A i \in 1..Len(Prop(data, "entries").items) :
       typeIsValidDailyEntry(Prop(data, "entries").items[i])
  /\ \A i \in 1..Len(Prop(data, "stock").items) :
       typeIsValidStockItem(Prop(data, "stock").items[i])

getDefaultData ==
  JsObject([settings |-> JsObject([name |-> JsString(""),
                                   dailyTarget |-> Undefined]),
            entries |-> JsArray(<<>>),
            stock |-> JsArray(<<>>)])

\* JSON.parse(JSON.stringify(x)): the stored text is represented by the JSON
\* value it denotes.  A property whose value is undefined is left out, a
\* number that is not finite becomes null, undefined in an array becomes
\* null.
RECURSIVE JsonOf(_)
JsonOf(x) ==
  CASE x.t = "object" ->
         JsObject([k \in {j \in DOMAIN x.props : x.props[j] # Undefined} |->
                     JsonOf(x.props[k])])
    [] x.t = "array" ->
         JsArray([i \in 1..Len(x.items) |->
                    IF x.items[i] = Undefined THEN Null ELSE JsonOf(x.items[i])])
    [] x.t = "number" -> IF x.num.kind = "fin" THEN x ELSE Null
    [] OTHER -> x

\* The values of data.settings a caller may hand to saveData.
SettingsDomain ==
  {Undefined, Null,
   JsObject([name |-> JsNumber(Fin(R(7)))]),
   JsObject([name |-> JsString("Boutique")])}
  \cup
  {JsObject([name |-> JsString("Boutique"), dailyTarget |-> target]) :
     target \in {Undefined, JsNumber(Fin(R(50000))), JsNumber(Fin(R(-1))),
                 JsNumber(Infinity), JsString("50000")}}

\* The values of data.entries and of data.stock.
ArrayDomain ==
  {JsString("none")}
  \cup
  {JsArray(items) :
     items \in UNION {[1..n -> {AcceptedItem, RefusedItem}] : n \in 0..MaxItems}}

DataDomain ==
  {Null}
  \cup
  {JsObject([settings |-> s, entries |-> e, stock |-> k]) :
     s \in SettingsDomain, e \in ArrayDomain, k \in ArrayDomain}

\* What a call finds: a browser, a server without window, or a browser whose
\* storage access throws (quota, privacy mode).
Environments == {"browser", "server", "throwing"}

\* saveData(data)
SaveData(data, env) ==
  LET written == env = "browser" /\ isValidBusinessData(data)
  IN  /\ probe = Absent
      /\ localStorage' = IF written THEN Some(JsonOf(data)) ELSE localStorage
      /\ probe' = Some([op |-> "saveData", argument |-> data,
                        environment |-> env, before |-> localStorage,
                        returned |-> written])
      /\ UNCHANGED <<entries, stockItems, daysToAnalyze, report>>

\* clearData()
ClearData(env) ==
  /\ probe = Absent
  /\ localStorage' = IF env = "browser" THEN Absent ELSE localStorage
  /\ probe' = Some([op |-> "clearData", argument |-> Undefined,
                    environment |-> env, before |-> localStorage,
                    returned |-> (env = "browser")])
  /\ UNCHANGED <<entries, stockItems, daysToAnalyze, report>>

\* loadData()
LoadData(env) ==
  /\ probe = Absent
  /\ probe' = Some([op |-> "loadData", argument |-> Undefined,
                    environment |-> env, before |-> localStorage,
                    returned |->
                      IF env # "browser" \/ localStorage = Absent
                      THEN getDefaultData
                      ELSE IF isValidBusinessData(localStorage[1])
                           THEN localStorage[1] ELSE getDefaultData])
  /\ UNCHANGED <<entries, stockItems, daysToAnalyze, report, localStorage>>

\* The call has returned and its caller goes on.
CallReturns ==
  /\ probe # Absent
  /\ probe' = Absent
  /\ UNCHANGED <<entries, stockItems, daysToAnalyze, report, localStorage>>

NextStorage ==
  \/ CallReturns
  \/ \E data \in DataDomain, env \in Environments : SaveData(data, env)
  \/ \E env \in Environments : ClearData(env)
  \/ \E env \in Environments : LoadData(env)

SpecStorage == Init /\ [][NextStorage]_vars

\* ------------------------------------------------ what the ledger records

RECURSIVE SumOver(_, _)
SumOver(S, f) ==
  IF S = {} THEN 0
  ELSE LET x == CHOOSE y \in S : TRUE IN f[x] + SumOver(S \ {x}, f)

\* The ledger positions of the SALE entries carrying id.
SaleIndices(id) ==
  {i \in 1..Len(entries) :
     entries[i].productId = Some(id) /\ entries[i].type = "SALE"}

\* The ledger positions of the EXPENSE and STOCK_IN entries carrying id.
CostIndices(id) ==
  {i \in 1..Len(entries) :
     entries[i].productId = Some(id) /\ entries[i].type \in {"EXPENSE", "STOCK_IN"}}

LedgerUnitsSold(id) ==
  SumOver(SaleIndices(id),
          [i \in 1..Len(entries) |->
             IF entries[i].quantity = Absent THEN 0 ELSE entries[i].quantity[1]])

LedgerRevenue(id) ==
  SumOver(SaleIndices(id), [i \in 1..Len(entries) |-> entries[i].amount])

LedgerCost(id) ==
  SumOver(CostIndices(id), [i \in 1..Len(entries) |-> entries[i].amount])

\* The position of the stock item with this id in stockItems.
ItemIndex(id) == CHOOSE i \in 1..Len(stockItems) : stockItems[i].id = id

\* The products of the report the latest call returned.
Returned == report[1].products

CompletedCategories ==
  {"COMPLETED_PROFITABLE", "COMPLETED_BREAKEVEN", "COMPLETED_LOSS"}

Categories ==
  {"NOT_STARTED", "IN_PROGRESS_STRONG", "IN_PROGRESS_RECOVERING",
   "IN_PROGRESS_TROUBLED", "IN_PROGRESS_DECLINING", "IN_PROGRESS_NEUTRAL",
   "UNKNOWN"} \cup CompletedCategories

\* ----------------------------------------------------------------- claims

\* C1: in every returned report of N products, each of rankByRevenue,
\* rankByProfit and rankByEfficiency takes every value of 1..N on the N
\* products (so none is 0 and none is repeated), ties included.
RanksArePermutations ==
  report # Absent =>
    LET N == Len(Returned)
    IN  /\ {Returned[k].rankByRevenue : k \in 1..N} = 1..N
        /\ {Returned[k].rankByProfit : k \in 1..N} = 1..N
        /\ {Returned[k].rankByEfficiency : k \in 1..N} = 1..N

\* C1 witness: a report of two products that tie on revenue and on profit.
RanksWithTieReturned ==
  /\ report # Absent
  /\ Len(Returned) = 2
  /\ Returned[1].totalRevenue = Returned[2].totalRevenue
  /\ Returned[1].estimatedProfit = Returned[2].estimatedProfit
  /\ {Returned[1].rankByRevenue, Returned[2].rankByRevenue} = {1, 2}

\* C2: a stock item is in the returned list exactly when the quantities of
\* the SALE entries carrying its id sum to more than 0; the other items are
\* not listed and add nothing to the summary's count and totals.
ListedIffUnitsSold ==
  report # Absent =>
    LET sold == {i \in 1..Len(stockItems) :
                   LedgerUnitsSold(stockItems[i].id) > 0}
        summary == report[1].summary
    IN  /\ \A i \in 1..Len(stockItems) :
             (\E k \in 1..Len(Returned) :
                Returned[k].productId = stockItems[i].id) <=> i \in sold
        /\ Len(Returned) = Cardinality(sold)
        /\ summary.totalProductsAnalyzed = Cardinality(sold)
        /\ summary.totalRevenue =
             SumOver(sold, [i \in 1..Len(stockItems) |->
                              LedgerRevenue(stockItems[i].id)])
        /\ summary.totalProfit =
             SumOver(sold, [i \in 1..Len(stockItems) |->
                              LedgerRevenue(stockItems[i].id)
                              - LedgerCost(stockItems[i].id)])

\* C2 witness: one stock item is listed, and another one whose only SALE
\* entry has no quantity is not.
UnsoldItemLeftOut ==
  /\ report # Absent
  /\ Len(Returned) = 1
  /\ \E i \in 1..Len(stockItems) :
       /\ SaleIndices(stockItems[i].id) # {}
       /\ LedgerUnitsSold(stockItems[i].id) = 0
       /\ Returned[1].productId # stockItems[i].id

\* The six inputs calculateScore got for a returned product.
ScoreInputsNonNegative(p) ==
  /\ p.totalRevenue >= 0
  /\ p.realizedProfit >= 0
  /\ p.stockEfficiency.n >= 0
  /\ p.stockTurnover.n >= 0
  /\ p.profitMargin.n >= 0
  /\ p.realizationRate.n >= 0

\* C3: a product whose six score inputs are non-negative has a
\* performanceScore between 0 and 100.
ScoreWithin0And100 ==
  report # Absent =>
    \A k \in 1..Len(Returned) :
      ScoreInputsNonNegative(Returned[k]) =>
        /\ Returned[k].performanceScore >= 0
        /\ Returned[k].performanceScore <= 100

\* The six sub-scores of a returned product are all at their cap of 100.
AllSubScoresAtCap(p) ==
  /\ p.totalRevenue >= 100000
  /\ p.realizedProfit >= 50000
  /\ RGe(p.stockEfficiency, R(100))
  /\ RGe(p.stockTurnover, R(2))
  /\ RGe(p.profitMargin, R(100))
  /\ RGe(p.realizationRate, R(100))

\* C4: the six weights sum to 1, so a product whose six sub-scores are all
\* at their cap of 100 has performanceScore 100.
CappedProductScores100 ==
  report # Absent =>
    \A k \in 1..Len(Returned) :
      AllSubScoresAtCap(Returned[k]) =>
        /\ RAdd(RAdd(RAdd(weights.revenue, weights.profit),
                     RAdd(weights.efficiency, weights.turnover)),
                RAdd(weights.margin, weights.realization)) = R(1)
        /\ Returned[k].performanceScore = 100

\* C5: categorizePerformance returns one of the ten categories, the one the
\* ordered guards select: NOT_STARTED iff the rate is 0; a COMPLETED_*
\* category by the sign of the realized profit iff the rate is not 0 and the
\* stock is 0; an IN_PROGRESS_* category by the signs of the two profits
\* (NEUTRAL when either is 0) iff the rate is not 0, the stock is not 0 and
\* the rate is below 100; UNKNOWN otherwise.
ClassifierFollowsOrderedGuards ==
  (probe # Absent /\ probe[1].category # Absent) =>
    LET a == probe[1].realizedProfit.n
        b == probe[1].projectedProfit.n
        rate == probe[1].realizationRate
        stock == probe[1].currentStock
        c == probe[1].category[1]
        completed == rate.n # 0 /\ stock = 0
        inProgress == rate.n # 0 /\ stock # 0 /\ rate.n < 100 * rate.d
    IN  /\ c \in Categories
        /\ c = "NOT_STARTED" <=> rate.n = 0
        /\ c = "COMPLETED_PROFITABLE" <=> (completed /\ a > 0)
        /\ c = "COMPLETED_BREAKEVEN" <=> (completed /\ a = 0)
        /\ c = "COMPLETED_LOSS" <=> (completed /\ a < 0)
        /\ c = "IN_PROGRESS_STRONG" <=> (inProgress /\ a > 0 /\ b > 0)
        /\ c = "IN_PROGRESS_RECOVERING" <=> (inProgress /\ a < 0 /\ b > 0)
        /\ c = "IN_PROGRESS_TROUBLED" <=> (inProgress /\ a < 0 /\ b < 0)
        /\ c = "IN_PROGRESS_DECLINING" <=> (inProgress /\ a > 0 /\ b < 0)
        /\ c = "IN_PROGRESS_NEUTRAL" <=> (inProgress /\ (a = 0 \/ b = 0))
        /\ c = "UNKNOWN" <=>
             (rate.n # 0 /\ stock # 0 /\ rate.n >= 100 * rate.d)

\* C5 witness: the classifier has answered UNKNOWN for a rate of exactly 100
\* with stock remaining.
ClassifiedUnknownAtHundred ==
  /\ probe # Absent
  /\ probe[1].category = Some("UNKNOWN")
  /\ probe[1].realizationRate = R(100)
  /\ probe[1].currentStock > 0

\* C6: a returned product with currentStock 0 and a realizationRate above 0
\* has one of the three COMPLETED_* categories, whatever its rate.
SoldOutIsCompleted ==
  report # Absent =>
    \A k \in 1..Len(Returned) :
      (Returned[k].currentStock = 0 /\ Returned[k].realizationRate.n > 0) =>
        Returned[k].performanceCategory \in CompletedCategories

\* C6 witness: a sold-out product with a rate of 100 or more is returned as
\* COMPLETED_PROFITABLE.
SoldOutAtFullRateReturned ==
  /\ report # Absent
  /\ \E k \in 1..Len(Returned) :
       /\ Returned[k].currentStock = 0
       /\ RGe(Returned[k].realizationRate, R(100))
       /\ Returned[k].performanceCategory = "COMPLETED_PROFITABLE"

\* C7: a returned product is UNKNOWN only if its stock item has units on hand
\* and the ledger's units sold reach totalSold + quantity; a product whose
\* ledger units sold do not exceed its item's totalSold is never UNKNOWN.
UnknownOnlyWhenOversold ==
  report # Absent =>
    \A k \in 1..Len(Returned) :
      LET p == Returned[k]
          item == stockItems[ItemIndex(p.productId)]
          sold == LedgerUnitsSold(p.productId)
      IN  /\ p.performanceCategory = "UNKNOWN" =>
               (item.quantity > 0 /\ sold >= item.totalSold + item.quantity)
          /\ sold <= item.totalSold => p.performanceCategory # "UNKNOWN"

\* C7 witness: a report with an UNKNOWN product and with a product that has
\* stock left and no more ledger sales than its totalSold.
UnknownAndConsistentReturned ==
  /\ report # Absent
  /\ \E k \in 1..Len(Returned) : Returned[k].performanceCategory = "UNKNOWN"
  /\ \E k \in 1..Len(Returned) :
       /\ Returned[k].currentStock > 0
       /\ LedgerUnitsSold(Returned[k].productId)
            <= stockItems[ItemIndex(Returned[k].productId)].totalSold

\* C8: a product is NOT_STARTED only when the ledger records no units sold
\* for it, so no returned product is NOT_STARTED.
NotStartedOnlyWithoutSales ==
  report # Absent =>
    \A k \in 1..Len(Returned) :
      Returned[k].performanceCategory = "NOT_STARTED" =>
        LedgerUnitsSold(Returned[k].productId) = 0

\* C9: with daysToAnalyze = 0 every product's daysOfStockLeft is the
\* +Infinity sentinel, never 0 and never NaN.
ZeroWindowGivesInfinity ==
  (report # Absent /\ daysToAnalyze = 0) =>
    \A k \in 1..Len(Returned) : Returned[k].daysOfStockLeft = Infinity

\* a's rank is smaller than b's whenever a's key is greater, or the keys are
\* equal and a's stock item comes first.
OrderedBy(ka, kb, ra, rb, a, b) ==
  /\ RGt(ka, kb) => ra < rb
  /\ (ka = kb /\ ItemIndex(a.productId) < ItemIndex(b.productId)) => ra < rb

\* C10: for any two returned products and each of the keys totalRevenue,
\* realized profit and stockEfficiency, the greater key has the smaller rank
\* and, on equal keys, the product earlier in stockItems has the smaller
\* rank.
RanksFollowKeysStably ==
  report # Absent =>
    \A i, j \in 1..Len(Returned) :
      LET a == Returned[i]
          b == Returned[j]
      IN  /\ OrderedBy(R(a.totalRevenue), R(b.totalRevenue),
                       a.rankByRevenue, b.rankByRevenue, a, b)
          /\ OrderedBy(R(a.realizedProfit), R(b.realizedProfit),
                       a.rankByProfit, b.rankByProfit, a, b)
          /\ OrderedBy(a.stockEfficiency, b.stockEfficiency,
                       a.rankByEfficiency, b.rankByEfficiency, a, b)

\* C10 witness: two returned products tie on revenue, and the second one is
\* strictly more efficient: it ranks second by revenue and first by
\* efficiency.
TieAndStrictOrderReturned ==
  /\ report # Absent
  /\ Len(Returned) = 2
  /\ Returned[1].totalRevenue = Returned[2].totalRevenue
  /\ RGt(Returned[2].stockEfficiency, Returned[1].stockEfficiency)
  /\ Returned[2].rankByRevenue = 2
  /\ Returned[2].rankByEfficiency = 1

\* C11: the summary's totalRevenue and totalProfit are the sums of
\* totalRevenue and of realized profit over the returned products,
\* totalProductsAnalyzed is their number, and averageMargin is
\* totalProfit / totalRevenue * 100 when totalRevenue > 0 and 0 otherwise;
\* all are 0 for an empty list.
SummaryTotalsTheReturned ==
  report # Absent =>
    LET N == Len(Returned)
        summary == report[1].summary
        revenue == SumOver(1..N, [k \in 1..N |-> Returned[k].totalRevenue])
        profit == SumOver(1..N, [k \in 1..N |-> Returned[k].realizedProfit])
    IN  /\ summary.totalRevenue = revenue
        /\ summary.totalProfit = profit
        /\ summary.totalProductsAnalyzed = N
        /\ revenue > 0 =>
             /\ summary.averageMargin.n * revenue
                  = 100 * profit * summary.averageMargin.d
             /\ summary.averageMargin.d > 0
        /\ revenue <= 0 => summary.averageMargin = R(0)
        /\ N = 0 => (summary.totalRevenue = 0 /\ summary.totalProfit = 0)

\* C11 witness: a summary over two products with different revenue and
\* profit and a margin above 0.
SummaryOverTwoReturned ==
  /\ report # Absent
  /\ Len(Returned) = 2
  /\ Returned[1].totalRevenue # Returned[2].totalRevenue
  /\ Returned[1].realizedProfit # Returned[2].realizedProfit
  /\ RGt(report[1].summary.averageMargin, R(0))

\* No stock item has units sold in the ledger.
LedgerUnitsSoldNowhere ==
  \A i \in 1..Len(stockItems) : LedgerUnitsSold(stockItems[i].id) <= 0

\* best is Absent for an empty key list and otherwise the first position
\* holding the greatest key.
FirstMaximum(best, keys) ==
  IF Len(keys) = 0 THEN best = Absent
  ELSE /\ best # Absent
       /\ best[1] \in 1..Len(keys)
       /\ \A k \in 1..Len(keys) : keys[k] <= keys[best[1]]
       /\ \A k \in 1..(best[1] - 1) : keys[k] < keys[best[1]]

\* C12: bestByRevenue, bestByProfit and bestByScore are null exactly when no
\* product is returned; otherwise each points at a returned product with the
\* greatest totalRevenue, realized profit and performanceScore, the first
\* such product in list order.
BestPointersAreFirstMaxima ==
  report # Absent =>
    LET N == Len(Returned)
        summary == report[1].summary
    IN  /\ FirstMaximum(summary.bestByRevenue,
                        [k \in 1..N |-> Returned[k].totalRevenue])
        /\ FirstMaximum(summary.bestByProfit,
                        [k \in 1..N |-> Returned[k].realizedProfit])
        /\ FirstMaximum(summary.bestByScore,
                        [k \in 1..N |-> Returned[k].performanceScore])
        /\ N = 0 <=> LedgerUnitsSoldNowhere

\* C12 witness: two returned products tie on revenue and profit, the second
\* has the greater score: bestByRevenue and bestByProfit are the first,
\* bestByScore the second.
BestOnTieReturned ==
  /\ report # Absent
  /\ Len(Returned) = 2
  /\ Returned[1].totalRevenue = Returned[2].totalRevenue
  /\ Returned[1].realizedProfit = Returned[2].realizedProfit
  /\ report[1].summary.bestByRevenue = Some(1)
  /\ report[1].summary.bestByProfit = Some(1)
  /\ report[1].summary.bestByScore = Some(2)

Malformed(entry) ==
  \/ entry.amount < 0
  \/ entry.type \notin {"SALE", "EXPENSE", "STOCK_IN"}

\* C14: entries with a negative amount or an unknown type are ignored: every
\* product's revenue, quantitySold and totalCost are those of the ledger
\* without these entries.
AggregatesIgnoreMalformed ==
  probe # Absent =>
    LET wellFormed == {i \in 1..Len(entries) : ~Malformed(entries[i])}
        amounts == [i \in 1..Len(entries) |-> entries[i].amount]
        quantities ==
          [i \in 1..Len(entries) |->
             IF entries[i].quantity = Absent THEN 0 ELSE entries[i].quantity[1]]
    IN  \A id \in Ids :
          LET got == MapGetOrZero(probe[1].dataByProduct, id)
          IN  /\ got.revenue = SumOver(SaleIndices(id) \cap wellFormed, amounts)
              /\ got.quantity = SumOver(SaleIndices(id) \cap wellFormed, quantities)
              /\ got.totalCost = SumOver(CostIndices(id) \cap wellFormed, amounts)

\* The ledger with the entries at positions i and j exchanged.
Exchanged(i, j) ==
  [k \in 1..Len(entries) |->
     IF k = i THEN entries[j] ELSE IF k = j THEN entries[i] ELSE entries[k]]

\* C15: for every stock item id the aggregated revenue is the sum of the
\* amounts of the SALE entries carrying the id, quantitySold the sum of their
\* quantities (absent counted as 0) and totalCost the sum of the amounts of
\* the EXPENSE and STOCK_IN entries carrying it; entries without productId
\* add to no product, and exchanging entries changes nothing.
AggregatesAreLedgerSums ==
  probe # Absent =>
    /\ \A id \in Ids :
         LET got == MapGetOrZero(probe[1].dataByProduct, id)
         IN  /\ got.revenue = LedgerRevenue(id)
             /\ got.quantity = LedgerUnitsSold(id)
             /\ got.totalCost = LedgerCost(id)
    /\ DOMAIN probe[1].dataByProduct \subseteq Ids
    /\ \A i, j \in 1..Len(entries) :
         dataByProduct(Exchanged(i, j)) = probe[1].dataByProduct

\* C15 witness: a ledger of a SALE entry without productId followed by a
\* SALE entry for p1 without quantity has been aggregated: p1 has the revenue
\* of its entry alone and no units.
IdlessAndUnitlessAggregated ==
  /\ probe # Absent
  /\ Len(entries) = 2
  /\ entries[1].productId = Absent
  /\ entries[2].productId = Some("p1")
  /\ entries[2].type = "SALE"
  /\ entries[2].quantity = Absent
  /\ probe[1].dataByProduct["p1"].revenue = entries[2].amount
  /\ probe[1].dataByProduct["p1"].quantity = 0

\* C16: getPerformanceCategoryDisplay returns a (label, color, icon) triple
\* for every string: the category's own triple for the nine categories other
\* than UNKNOWN, and the triple of UNKNOWN for UNKNOWN and every other string.
DisplayIsOwnOrUnknownTriple ==
  (probe # Absent /\ "display" \in DOMAIN probe[1]) =>
    LET c == probe[1].category[1]
        d == probe[1].display
    IN  /\ DOMAIN d = {"label", "color", "icon"}
        /\ c \in Categories \ {"UNKNOWN"} => d = categories[c]
        /\ c \notin Categories \ {"UNKNOWN"} => d = categories.UNKNOWN

\* C17: every returned product has realizationRate = stockEfficiency; both
\* are (unitsSold / initialStock) * 100 when initialStock > 0 and both are 0
\* when initialStock = 0.
RealizationRateIsStockEfficiency ==
  report # Absent =>
    \A i \in 1..Len(Returned) :
      LET p == Returned[i]
      IN  /\ p.realizationRate = p.stockEfficiency
          /\ p.initialStock > 0 =>
               RMul(p.realizationRate, R(p.initialStock)) = R(100 * p.unitsSold)
          /\ p.initialStock = 0 => p.realizationRate = R(0)

\* C17 witness: a report with a product that sold one unit of an initial
\* stock of three (rate 100/3) and a product with sales and no initial stock.
FractionalAndZeroRateReturned ==
  /\ report # Absent
  /\ \E i \in 1..Len(Returned) :
       /\ Returned[i].initialStock = 3
       /\ Returned[i].unitsSold = 1
       /\ Returned[i].stockEfficiency = Rat(100, 3)
  /\ \E i \in 1..Len(Returned) :
       /\ Returned[i].initialStock = 0
       /\ Returned[i].stockEfficiency = R(0)

\* The performanceScore of the returned products, in list order.
ReturnedScores == [k \in 1..Len(Returned) |-> Returned[k].performanceScore]

ProjectedProfitNotBelowRealized ==
  report # Absent =>
    \A i \in 1..Len(Returned) :
      LET p == Returned[i]
      IN  /\ RGe(p.projectedProfit, R(p.realizedProfit))
          /\ RSub(p.projectedProfit, R(p.realizedProfit)) = p.unrealizedValue
          /\ p.unrealizedValue = RMul(R(p.currentStock), p.revenuePerUnit)
          /\ RGe(p.unrealizedValue, R(0))
          /\ p.performanceCategory # "IN_PROGRESS_DECLINING"

\* C20 witness: a returned product with a realized profit and units left in
\* stock: its projected profit is strictly greater and it is
\* IN_PROGRESS_STRONG.
ProfitableWithStockReturned ==
  /\ report # Absent
  /\ \E i \in 1..Len(Returned) :
       /\ Returned[i].realizedProfit > 0
       /\ Returned[i].currentStock > 0
       /\ RGt(Returned[i].unrealizedValue, R(0))
       /\ RGt(Returned[i].projectedProfit, R(Returned[i].realizedProfit))
       /\ Returned[i].performanceCategory = "IN_PROGRESS_STRONG"

\* A value of the BusinessData type: settings with a string name and a
\* dailyTarget that is missing or a non-negative number, and arrays of
\* entries and stock items their type guards accept.
ConformsToSchema(d) ==
  /\ d.t = "object"
  /\ {"settings", "entries", "stock"} \subseteq DOMAIN d.props
  /\ d.props.settings.t = "object"
  /\ "name" \in DOMAIN d.props.settings.props
  /\ d.props.settings.props.name.t = "string"
  /\ \/ "dailyTarget" \notin DOMAIN d.props.settings.props
     \/ d.props.settings.props.dailyTarget = Undefined
     \/ /\ d.props.settings.props.dailyTarget.t = "number"
        /\ d.props.settings.props.dailyTarget.num.kind \in {"fin", "inf"}
        /\ RGe(d.props.settings.props.dailyTarget.num.v, R(0))
  /\ d.props.entries.t = "array"
  /\ \A i \in 1..Len(d.props.entries.items) : d.props.entries.items[i] = AcceptedItem
  /\ d.props.stock.t = "array"
  /\ \A i \in 1..Len(d.props.stock.items) : d.props.stock.items[i] = AcceptedItem

\* The serializations of the values of the BusinessData type.
SerializedBusinessData == {JsonOf(d) : d \in {x \in DataDomain : ConformsToSchema(x)}}

\* C18: saveData returns false and leaves the stored value as it was when
\* the data is invalid, when there is no window or when the write throws, and
\* otherwise stores the serialization of the data; after any calls of
\* saveData and clearData from empty storage the key is absent or holds the
\* serialization of a valid BusinessData; loadData returns a valid
\* BusinessData, the default one when the key is absent or its content is
\* invalid.
StorageHoldsOnlyValidData ==
  /\ localStorage = Absent \/ localStorage[1] \in SerializedBusinessData
  /\ (probe # Absent /\ probe[1].op = "saveData") =>
       LET refused == \/ probe[1].environment # "browser"
                      \/ ~ConformsToSchema(probe[1].argument)
       IN  /\ probe[1].returned = ~refused
           /\ refused => localStorage = probe[1].before
           /\ ~refused => localStorage = Some(JsonOf(probe[1].argument))
  /\ (probe # Absent /\ probe[1].op = "loadData") =>
       /\ ConformsToSchema(probe[1].returned)
       /\ localStorage = probe[1].before
       /\ (localStorage = Absent \/ ~ConformsToSchema(localStorage[1]))
            => probe[1].returned = getDefaultData

\* C18 witness: a valid BusinessData was refused because the write threw,
\* and the storage still holds the different data saved before.
RefusedSaveKeptEarlierData ==
  /\ probe # Absent
  /\ probe[1].op = "saveData"
  /\ probe[1].environment = "throwing"
  /\ ConformsToSchema(probe[1].argument)
  /\ ~probe[1].returned
  /\ localStorage # Absent
  /\ localStorage # Some(JsonOf(probe[1].argument))

\* C21: whenever products are returned, the product bestByRevenue points at
\* has rankByRevenue 1 and the product bestByProfit points at has
\* rankByProfit 1, also when several products tie on the maximum.
BestPointersHaveRankOne ==
  (report # Absent /\ Len(Returned) > 0) =>
    /\ report[1].summary.bestByRevenue # Absent
    /\ report[1].summary.bestByProfit # Absent
    /\ Returned[report[1].summary.bestByRevenue[1]].rankByRevenue = 1
    /\ Returned[report[1].summary.bestByProfit[1]].rankByProfit = 1

\* C21 witness: one report where the two products tie on the maximum revenue
\* and the second has the greater profit.
BestOfTiedRevenueReturned ==
  /\ report # Absent
  /\ Len(Returned) = 2
  /\ Returned[1].totalRevenue = Returned[2].totalRevenue
  /\ Returned[1].realizedProfit < Returned[2].realizedProfit
  /\ Returned[1].rankByRevenue = 1
  /\ Returned[2].rankByProfit = 1

\* C22: for a window daysToAnalyze > 0 every returned product has a finite
\* daysOfStockLeft equal to currentStock * daysToAnalyze / unitsSold (0 when
\* currentStock is 0); the +Infinity sentinel is computed only for stock
\* items without units sold, none of which is returned.
DaysOfStockLeftFiniteWhenReturned ==
  (report # Absent /\ daysToAnalyze > 0) =>
    /\ \A k \in 1..Len(Returned) :
         LET p == Returned[k]
         IN  /\ p.daysOfStockLeft.kind = "fin"
             /\ p.unitsSold > 0
             /\ RMul(p.daysOfStockLeft.v, R(p.unitsSold))
                  = R(p.currentStock * daysToAnalyze)
             /\ p.currentStock = 0 => p.daysOfStockLeft = Fin(R(0))
    /\ LET computed == mapProducts(entries, stockItems, daysToAnalyze)
       IN  \A i \in 1..Len(computed) :
             computed[i].daysOfStockLeft = Infinity =>
               /\ computed[i].unitsSold = 0
               /\ \A k \in 1..Len(Returned) :
                    Returned[k].productId # computed[i].productId

\* C22 witness: over a window of 7 days a product that sold three units and
\* has one left is returned with 7/3 days of stock, while the other stock
\* item, without sales, is left out.
FractionalDaysReturnedUnsoldLeftOut ==
  /\ report # Absent
  /\ daysToAnalyze = 7
  /\ Len(stockItems) = 2
  /\ Len(Returned) = 1
  /\ Returned[1].unitsSold = 3
  /\ Returned[1].currentStock = 1
  /\ Returned[1].daysOfStockLeft = Fin(Rat(7, 3))

====
